---------------------------- MODULE Spec2Model ----------------------------
(* A model of the Cornell course scraper (src/cornell_scraper.py) and of   *)
(* the course code extractor (src/extract_course_codes_from_list.py).      *)
(*                                                                         *)
(* Text is modelled as a sequence of pieces.  Where the program inspects   *)
(* characters (semester codes, course strings, scanned text) every piece   *)
(* is one character; literals that the program only copies (labels of the  *)
(* formatter) are kept as one piece.                                       *)
EXTENDS Integers, Sequences, FiniteSets, TLC

(***************************************************************************)
(* Bounds of the model                                                     *)
(***************************************************************************)
\* The largest number of semesters stepped back or listed as fallbacks
MaxSteps == 3

\* The longest course string given to the parser
MaxCourseLen == 5

\* The largest number of learning outcomes of a course record
MaxOutcomes == 2

\* The largest number of fragments the scanned text is made of
MaxFragments == 3

\* The largest value of --max-fallbacks
MaxFallbacks == 3

\* The largest number of lines of the batch input file
MaxLines == 2

\* The largest number of command-line arguments after the input path
MaxArgs == 3

(***************************************************************************)
(* State                                                                   *)
(***************************************************************************)
VARIABLES
    \* the scraper object and the semester resolver
    today,          \* what datetime.now() gives: [year, month, day]
    semester_arg,   \* the semester argument of __init__; <<>> is None or ""
    self_semester,  \* self.semester
    steps,          \* steps_back, and num_fallbacks, of the resolver calls
    previous,       \* outcome of get_previous_semester(self.semester, steps)
    fallbacks,      \* outcome of get_fallback_semesters(self.semester, steps)
    sem_pc,         \* "new", "constructed", "stepped", "done"
    \* a call of parse_course_code
    parse_input,    \* course_string
    parse_result,   \* the outcome of the call
    parse_pc,       \* "call", "done"
    \* a call of format_course_output
    fmt_record,     \* course_info
    fmt_note,       \* include_semester_note
    fmt_output,     \* the list output: the lines of the returned text
    fmt_pc,         \* "call", "done"
    \* a run of extract_unique_courses
    ext_input,      \* the input file: [exists, content]
    ext_output,     \* the output file: [exists, lines]
    ext_pc,         \* "call", "done"
    \* a call of get_course_info_for_semester
    fetch_course,   \* course_code
    fetch_semester, \* semester
    fetch_resp,     \* what the request meets: [raises, status, page]
    fetch_result,   \* the outcome of the call
    fetch_pc,       \* "call", "done"
    \* a run of the command line in single-course or batch mode
    mode,           \* "single" or "batch"
    use_fallback,   \* not --no-fallback
    max_fallbacks,  \* --max-fallbacks
    input_file,     \* the batch input file: [exists, lines]
    output_file,    \* the batch output file: [exists, lines]
    courses,        \* the course strings: the input list, or <<argv[1]>>
    pc,             \* where the run is
    idx,            \* the 1-based position in courses of the current course
    attempts,       \* the fetches of the current lookup: [semester, found]
    lookup_result,  \* what get_course_info returned: a record or None
    fb_list,        \* fallback_semesters of get_course_info
    fb_idx,         \* the position of the fallback loop in fb_list
    successful,     \* the counter of process_course_list
    failed,         \* the list of process_course_list
    lookups,        \* the lookups that returned: [course, found]
    summary,        \* the end-of-run report of the batch
    printed,        \* the lines single-course mode prints at its end
    \* the command line of the file-processing mode
    argv,           \* sys.argv, argv[1] being the program name
    cli,            \* what the command line was read as
    cli_pc          \* "start", "parsed"

semVars ==
    <<today, semester_arg, self_semester, steps, previous, fallbacks, sem_pc>>

parseVars == <<parse_input, parse_result, parse_pc>>

fmtVars == <<fmt_record, fmt_note, fmt_output, fmt_pc>>

extVars == <<ext_input, ext_output, ext_pc>>

fetchVars ==
    <<fetch_course, fetch_semester, fetch_resp, fetch_result, fetch_pc>>

runVars ==
    <<mode, use_fallback, max_fallbacks, input_file, output_file, courses,
      pc, idx, attempts, lookup_result, fb_list, fb_idx, successful, failed,
      lookups, summary, printed>>

cliVars == <<argv, cli, cli_pc>>

vars == <<semVars, parseVars, fmtVars, extVars, fetchVars, runVars, cliVars>>

(***************************************************************************)
(* Characters and Python string primitives                                 *)
(***************************************************************************)
Digits == <<"0", "1", "2", "3", "4", "5", "6", "7", "8", "9">>

UpperLetters ==
    <<"A", "B", "C", "D", "E", "F", "G", "H", "I", "J", "K", "L", "M",
      "N", "O", "P", "Q", "R", "S", "T", "U", "V", "W", "X", "Y", "Z">>

LowerLetters ==
    <<"a", "b", "c", "d", "e", "f", "g", "h", "i", "j", "k", "l", "m",
      "n", "o", "p", "q", "r", "s", "t", "u", "v", "w", "x", "y", "z">>

Range(f) == {f[i] : i \in DOMAIN f}

IsDigit(c) == c \in Range(Digits)

IsUpper(c) == c \in Range(UpperLetters)

IsLower(c) == c \in Range(LowerLetters)

IsLetter(c) == IsUpper(c) \/ IsLower(c)

\* The characters [A-Z] matches under re.IGNORECASE
LetterChars == Range(UpperLetters) \cup Range(LowerLetters)

DigitChars == Range(Digits)

\* The characters str.strip() removes and the class \s matches
SpaceChars == {" ", "\t", "\n", "\r"}

IsSpace(c) == c \in SpaceChars

DigitVal(c) == (CHOOSE i \in DOMAIN Digits : Digits[i] = c) - 1

\* str.upper() on one character
UpperChar(c) ==
    IF IsLower(c)
    THEN UpperLetters[CHOOSE i \in DOMAIN LowerLetters : LowerLetters[i] = c]
    ELSE c

Upper(s) == [i \in DOMAIN s |-> UpperChar(s[i])]

\* s[from:] with a 0-based Python index
Drop(s, from) == SubSeq(s, from + 1, Len(s))

\* s.startswith(p)
StartsWith(s, p) == Len(s) >= Len(p) /\ SubSeq(s, 1, Len(p)) = p

\* The outcome of a call that may raise: a returned value, or the exception
\* that left it.
Ok(v) == [raised |-> FALSE, val |-> v]

ValueError == [raised |-> TRUE, val |-> "ValueError"]

\* What session.get raises on a network error or a timeout
RequestException == [raised |-> TRUE, val |-> "RequestException"]

\* Any other exception
OtherException == [raised |-> TRUE, val |-> "Exception"]

RECURSIVE LStrip(_)
LStrip(s) == IF s # <<>> /\ IsSpace(s[1]) THEN LStrip(Drop(s, 1)) ELSE s

RECURSIVE RStrip(_)
RStrip(s) ==
    IF s # <<>> /\ IsSpace(s[Len(s)]) THEN RStrip(SubSeq(s, 1, Len(s) - 1))
    ELSE s

\* str.strip()
Strip(s) == RStrip(LStrip(s))

\* int(s) accepts surrounding whitespace, an optional sign and one or more
\* decimal digits (underscores between digits are not modelled).
IsIntLiteral(s) ==
    LET t == Strip(s)
        body == IF Len(t) > 0 /\ t[1] \in {"-", "+"} THEN Drop(t, 1) ELSE t
    IN  Len(body) > 0 /\ \A i \in DOMAIN body : IsDigit(body[i])

RECURSIVE DigitsValue(_)
DigitsValue(s) ==
    IF s = <<>> THEN 0
    ELSE 10 * DigitsValue(SubSeq(s, 1, Len(s) - 1)) + DigitVal(s[Len(s)])

PyInt(s) ==
    LET t == Strip(s)
    IN  IF t[1] = "-" THEN 0 - DigitsValue(Drop(t, 1))
        ELSE IF t[1] = "+" THEN DigitsValue(Drop(t, 1))
        ELSE DigitsValue(t)

RECURSIVE NatDigits(_)
NatDigits(n) ==
    IF n < 10 THEN <<Digits[n + 1]>>
    ELSE NatDigits(n \div 10) \o <<Digits[(n % 10) + 1]>>

\* format(n, "02d"): the sign counts towards the width of two.
Fmt02d(n) ==
    IF n < 0 THEN <<"-">> \o NatDigits(0 - n)
    ELSE IF n < 10 THEN <<"0">> \o NatDigits(n)
    ELSE NatDigits(n)

(***************************************************************************)
(* Semester resolver                                                       *)
(***************************************************************************)
FA == <<"F", "A">>

SP == <<"S", "P">>

\* FallCond with the April boundary one day late (day > 15)
FallCond_LateApril(month, day) ==
    (month = 4 /\ day > 15) \/ (5 <= month /\ month <= 9)
        \/ (month = 10 /\ day <= 14)

\* The conditions of the if and of the elif of get_current_semester
FallCond(month, day) ==
    (month = 4 /\ day >= 15) \/ (5 <= month /\ month <= 9)
        \/ (month = 10 /\ day <= 14)

NextSpringCond(month, day) ==
    (month = 10 /\ day >= 15) \/ (11 <= month /\ month <= 12)

\* The branch of get_current_semester that returns
SemesterBranch(month, day) ==
    IF FallCond(month, day) THEN "fall"
    ELSE IF NextSpringCond(month, day) THEN "next_spring"
    ELSE "spring"

get_current_semester(year, month, day) ==
    CASE SemesterBranch(month, day) = "fall" -> FA \o Fmt02d(year % 100)
      [] SemesterBranch(month, day) = "next_spring" ->
             SP \o Fmt02d((year + 1) % 100)
      [] SemesterBranch(month, day) = "spring" -> SP \o Fmt02d(year % 100)

\* One iteration of the loop of get_previous_semester: "next" carries the new
\* value of current, "return" is the early return of the else branch, and
\* "raise" is int() rejecting the text after SP.
PrevStep(current) ==
    IF StartsWith(current, FA)
    THEN [kind |-> "next", val |-> SP \o Drop(current, 2)]
    ELSE IF StartsWith(current, SP)
    THEN IF IsIntLiteral(Drop(current, 2))
         THEN [kind |-> "next",
               val |-> FA \o Fmt02d(PyInt(Drop(current, 2)) - 1)]
         ELSE [kind |-> "raise", val |-> <<>>]
    ELSE [kind |-> "return", val |-> current]

RECURSIVE get_previous_semester(_, _)
get_previous_semester(semester, steps_back) ==
    IF steps_back <= 0 THEN Ok(semester)
    ELSE LET r == PrevStep(semester)
         IN  CASE r.kind = "next" ->
                    get_previous_semester(r.val, steps_back - 1)
               [] r.kind = "return" -> Ok(r.val)
               [] r.kind = "raise" -> ValueError

\* get_fallback_semesters with the loop started at 0: range(num_fallbacks)
get_fallback_semesters_FromZero(semester, num_fallbacks) ==
    LET n == IF num_fallbacks > 0 THEN num_fallbacks ELSE 0
        calls == [i \in 1..n |-> get_previous_semester(semester, i - 1)]
    IN  IF \E i \in 1..n : calls[i].raised THEN ValueError
        ELSE Ok([i \in 1..n |-> calls[i].val])

get_fallback_semesters(semester, num_fallbacks) ==
    LET n == IF num_fallbacks > 0 THEN num_fallbacks ELSE 0
        calls == [i \in 1..n |-> get_previous_semester(semester, i)]
    IN  IF \E i \in 1..n : calls[i].raised THEN ValueError
        ELSE Ok([i \in 1..n |-> calls[i].val])

(***************************************************************************)
(* Course code parser                                                      *)
(***************************************************************************)
\* s.split(':')[0]: the text before the first colon, all of s without one.
BeforeColon(s) ==
    IF \E i \in DOMAIN s : s[i] = ":"
    THEN SubSeq(s, 1, (CHOOSE i \in DOMAIN s :
                          s[i] = ":" /\ \A j \in 1..(i - 1) : s[j] # ":") - 1)
    ELSE s

\* The last position of the longest run of characters of the set chars that
\* starts at position from (1-based) of s; from - 1 when the run is empty.
RunEnd(s, from, chars) ==
    LET ends == {e \in (from - 1)..Len(s) : \A j \in from..e : s[j] \in chars}
    IN  CHOOSE e \in ends : \A f \in ends : f <= e

\* re.match(r'([A-Z]+)\s*(\d+)', s, re.IGNORECASE): anchored at the start of
\* s.  Each quantifier takes the longest run that still lets the rest of the
\* pattern match (greedy, with backtracking).
MatchCourse(s) ==
    LET letters == {l \in 1..Len(s) : \A j \in 1..l : s[j] \in LetterChars}
        spaces(l) == {w \in l..Len(s) :
                         \A j \in (l + 1)..w : s[j] \in SpaceChars}
        digits(w) == {d \in (w + 1)..Len(s) :
                         \A j \in (w + 1)..d : s[j] \in DigitChars}
        okL == {l \in letters : \E w \in spaces(l) : digits(w) # {}}
    IN  IF okL = {}
        THEN [matched |-> FALSE, group1 |-> <<>>, group2 |-> <<>>]
        ELSE LET l == CHOOSE x \in okL : \A y \in okL : y <= x
                 okW == {w \in spaces(l) : digits(w) # {}}
                 w == CHOOSE x \in okW : \A y \in okW : y <= x
                 d == CHOOSE x \in digits(w) : \A y \in digits(w) : y <= x
             IN  [matched |-> TRUE, group1 |-> SubSeq(s, 1, l),
                  group2 |-> SubSeq(s, w + 1, d)]

\* parse_course_code returning the department as written (no .upper())
parse_course_code_NoUpper(course_string) ==
    LET stripped == Strip(course_string)
        s == IF \E i \in DOMAIN stripped : stripped[i] = ":"
             THEN Strip(BeforeColon(stripped))
             ELSE stripped
        match == MatchCourse(s)
    IN  IF match.matched
        THEN Ok(<<match.group1, match.group2>>)
        ELSE ValueError

parse_course_code(course_string) ==
    LET stripped == Strip(course_string)
        s == IF \E i \in DOMAIN stripped : stripped[i] = ":"
             THEN Strip(BeforeColon(stripped))
             ELSE stripped
        match == MatchCourse(s)
    IN  IF match.matched
        THEN Ok(<<Upper(match.group1), match.group2>>)
        ELSE ValueError

(***************************************************************************)
(* Catalog page fetcher                                                    *)
(***************************************************************************)
\* What BeautifulSoup finds on a page: an element is present or not and has
\* the text get_text(strip=True) gives.
NoElem == [present |-> FALSE, text |-> <<>>]

Elem(t) == [present |-> TRUE, text |-> t]

\* A labelled span: rest is the text left once the nested catalog-prompt
\* span (when there is one) is taken out of the tree.
NoSpan == [present |-> FALSE, prompt |-> NoElem, rest |-> <<>>]

Span(prompt, rest) == [present |-> TRUE, prompt |-> prompt, rest |-> rest]

SpanClasses ==
    {"catalog-forbid", "catalog-attribute", "catalog-precoreq",
     "catalog-permiss", "catalog-when-offered", "catalog-satisfies",
     "last-terms-offered"}

None == [isNone |-> TRUE]

\* re.search(r'(\d{4}-\d{4})\s+Catalog', text): group 1 of the leftmost
\* match, <<>> without a match.  The word Catalog is one piece of the text.
YearMatch(text) ==
    LET at(i) ==
            /\ i + 10 <= Len(text)
            /\ \A j \in i..(i + 3) : IsDigit(text[j])
            /\ text[i + 4] = "-"
            /\ \A j \in (i + 5)..(i + 8) : IsDigit(text[j])
            /\ IsSpace(text[i + 9])
            /\ RunEnd(text, i + 9, SpaceChars) < Len(text)
            /\ text[RunEnd(text, i + 9, SpaceChars) + 1] = "Catalog"
        starts == {i \in DOMAIN text : at(i)}
    IN  IF starts = {} THEN <<>>
        ELSE LET i == CHOOSE i \in starts : \A j \in starts : i <= j
             IN  SubSeq(text, i, i + 8)

\* full_title.split(' - ', 1)[1] when ' - ' occurs in full_title, else
\* full_title.  The delimiter is one piece of the text.
TitleOf(full_title) ==
    IF \E i \in DOMAIN full_title : full_title[i] = " - "
    THEN Drop(full_title,
              CHOOSE i \in DOMAIN full_title :
                  /\ full_title[i] = " - "
                  /\ \A j \in 1..(i - 1) : full_title[j] # " - ")
    ELSE full_title

\* The text a span field gets: set only when the span and its prompt exist.
SpanField(span) ==
    IF span.present /\ span.prompt.present THEN span.rest ELSE <<>>

\* The dictionary built from a parsed page (lines 175-299).
Extract(dept, number, semester, page) ==
    LET title_elem ==
            IF page.title_a.present THEN page.title_a
            ELSE IF page.title_div.present THEN page.title_div.a
            ELSE NoElem
    IN  [isNone |-> FALSE,
         code |-> dept \o <<" ">> \o number,
         title |-> IF title_elem.present THEN TitleOf(title_elem.text)
                   ELSE <<>>,
         description |-> IF page.descr.present THEN page.descr.text ELSE <<>>,
         catalog_year |-> IF page.note.present THEN YearMatch(page.note.text)
                          ELSE <<>>,
         forbidden_overlaps |-> SpanField(page.spans["catalog-forbid"]),
         distribution_requirements |->
             SpanField(page.spans["catalog-attribute"]),
         prerequisites |-> SpanField(page.spans["catalog-precoreq"]),
         permission_note |-> SpanField(page.spans["catalog-permiss"]),
         when_offered |-> SpanField(page.spans["catalog-when-offered"]),
         satisfies_requirement |-> SpanField(page.spans["catalog-satisfies"]),
         last_terms_offered |-> SpanField(page.spans["last-terms-offered"]),
         learning_outcomes |-> page.outcomes,
         semester_found |-> semester]

\* NonEmpty without the test: any page of a 200 response is a course
NonEmpty_Always(course_info) == Ok(course_info)

\* Lines 302-307: a page that gave neither a title nor a description is no
\* course.
NonEmpty(course_info) ==
    IF course_info.title = <<>> /\ course_info.description = <<>>
    THEN Ok(None)
    ELSE Ok(course_info)

\* Lines 147-307, entered with the outcome of parse_course_code.  resp is
\* what the network and the page parser do for this request: raises names
\* the step that raises ("none", "transport" for session.get, "extract" for
\* a failure while a 200 response is processed), status is the HTTP status
\* and page the parsed body.
Request(parsed, semester, resp) ==
    IF parsed.raised THEN parsed
    ELSE IF resp.raises = "transport" THEN RequestException
    ELSE IF resp.status \in {404, 410} THEN Ok(None)
    ELSE IF resp.status # 200 THEN Ok(None)
    ELSE IF resp.raises = "extract" THEN OtherException
    ELSE NonEmpty(Extract(parsed.val[1], parsed.val[2], semester, resp.page))

\* The body of the try block of get_course_info_for_semester, lines 142-307.
FetchBody(course_code, semester, resp) ==
    Request(parse_course_code(course_code), semester, resp)

\* The except clause, lines 309-311: every exception becomes the return
\* value None.
Handled(body) == IF body.raised THEN Ok(None) ELSE body

\* get_course_info_for_semester without its except clause
get_course_info_for_semester_NoExcept(course_code, semester, resp) ==
    FetchBody(course_code, semester, resp)

\* The try block with its handler, lines 141-311
get_course_info_for_semester(course_code, semester, resp) ==
    Handled(FetchBody(course_code, semester, resp))

(***************************************************************************)
(* Output formatter                                                        *)
(***************************************************************************)
\* Labelled without the test of the field: the line is always written.
Labelled_Always(label, value) == <<(<<label>> \o value)>>

\* One labelled line, left out when the field is empty.
Labelled(label, value) ==
    IF value # <<>> THEN <<(<<label>> \o value)>> ELSE <<>>

OutcomeLines(outcomes) == [i \in DOMAIN outcomes |-> <<"* ">> \o outcomes[i]]

\* The list output of format_course_output, one element per line; the
\* function returns its elements joined by newlines.
format_course_output(course_info, include_semester_note) ==
    IF course_info.isNone THEN <<(<<"Course information not available">>)>>
    ELSE <<course_info.code, course_info.title>>
         \o (IF include_semester_note
             THEN <<(<<"[Information from ">> \o course_info.semester_found
                       \o <<" Class Roster]">>)>>
             ELSE <<>>)
         \o (IF course_info.catalog_year # <<>>
             THEN <<(<<"Course information provided by the ">>
                       \o course_info.catalog_year \o <<" Catalog.">>)>>
             ELSE <<(<<"Course information provided by the Catalog.">>)>>)
         \o <<(<<>>)>>
         \o (IF course_info.description # <<>>
             THEN <<(<<"Course Description:">>), course_info.description>>
             ELSE <<>>)
         \o Labelled("Prerequisites: ", course_info.prerequisites)
         \o Labelled("Permission Note: ", course_info.permission_note)
         \o Labelled("Forbidden Overlaps: ", course_info.forbidden_overlaps)
         \o Labelled("Distribution Requirements: ",
                     course_info.distribution_requirements)
         \o Labelled("When Offered: ", course_info.when_offered)
         \o Labelled("Satisfies Requirement: ",
                     course_info.satisfies_requirement)
         \o Labelled("Last 4 Terms Offered: ", course_info.last_terms_offered)
         \o (IF course_info.learning_outcomes # <<>>
             THEN <<(<<"Learning Outcomes:">>)>>
                  \o OutcomeLines(course_info.learning_outcomes)
             ELSE <<>>)

(***************************************************************************)
(* Fallback search and batch processing                                    *)
(***************************************************************************)
\* What the fallback loop of get_course_info does after the fetch of the
\* k-th of n fallback semesters: return the record, go on, or give up.
\* The loop left running after a hit:
AfterAttempt_NoReturn(found, k, n) ==
    IF k < n THEN "next"
    ELSE IF found THEN "return_found"
    ELSE "exhausted"

AfterAttempt(found, k, n) ==
    IF found THEN "return_found"
    ELSE IF k < n THEN "next"
    ELSE "exhausted"

\* courses of process_course_list: the stripped non-blank lines
RECURSIVE ReadCourses(_)
ReadCourses(lines) ==
    IF lines = <<>> THEN <<>>
    ELSE (IF Strip(lines[1]) # <<>> THEN <<Strip(lines[1])>> ELSE <<>>)
             \o ReadCourses(Drop(lines, 1))

\* sep.join(texts)
RECURSIVE Join(_, _)
Join(texts, sep) ==
    IF texts = <<>> THEN <<>>
    ELSE IF Len(texts) = 1 THEN texts[1]
    ELSE texts[1] \o <<sep>> \o Join(Drop(texts, 1), sep)

\* "=" * 80
Separator ==
    <<"================================================================================">>

\* The lines written for a course that was found, lines 457-459
SuccessBlock(course_info) ==
    format_course_output(course_info, TRUE) \o <<(<<>>), Separator, (<<>>)>>

\* The lines written for a course that was not found, lines 469-474
FailureBlock(course_code, all_semesters) ==
    <<course_code,
      (<<"[Course not found]">>),
      (<<"Course information provided by the Catalog.">>),
      (<<>>),
      (<<"Error: ">> \o course_code \o <<" has not been offered in: ">>
          \o Join(all_semesters, ", ")),
      (<<>>),
      Separator,
      (<<>>)>>

\* successful after a course whose lookup gave course_info; the counter
\* raised for every course:
NewSuccessful_Always(count, course_info) == count + 1

NewSuccessful(count, course_info) ==
    IF course_info.isNone THEN count ELSE count + 1

\* failed after the course course_code whose lookup gave course_info
NewFailed(list, course_code, course_info) ==
    IF course_info.isNone THEN Append(list, course_code) ELSE list

(***************************************************************************)
(* Command line of the file-processing mode                                *)
(***************************************************************************)
\* An argument is a sequence of pieces; the leading "--" of a flag is one
\* piece and the characters of a semester code are one piece each.
DashFile == <<"--", "file">>

DashSemester == <<"--", "semester">>

DashMaxFallbacks == <<"--", "max-fallbacks">>

DashNoFallback == <<"--", "no-fallback">>

DashDebug == <<"--", "debug">>

DefaultOutput == <<"courses_output.txt">>

\* sys.argv[i], i counted from 0
At(args, i) == args[i + 1]

\* The loop of lines 591-597 from position i on: every --max-fallbacks that
\* has a next argument sets the value when int() accepts that argument.
RECURSIVE MaxFallbacksFrom(_, _, _)
MaxFallbacksFrom(args, i, current) ==
    IF i >= Len(args) THEN current
    ELSE IF /\ At(args, i) = DashMaxFallbacks
            /\ i + 1 < Len(args)
            /\ IsIntLiteral(At(args, i + 1))
         THEN MaxFallbacksFrom(args, i + 1, PyInt(At(args, i + 1)))
         ELSE MaxFallbacksFrom(args, i + 1, current)

\* The loop of lines 600-604 from position i on: the argument after the
\* first --semester that has one; <<>> stands for None, which the
\* constructor treats as it treats the empty string.
RECURSIVE SemesterFrom(_, _)
SemesterFrom(args, i) ==
    IF i >= Len(args) THEN <<>>
    ELSE IF At(args, i) = DashSemester /\ i + 1 < Len(args)
         THEN At(args, i + 1)
         ELSE SemesterFrom(args, i + 1)

\* re.match(r'^(FA|SP|SU|WI)\d{2}$', arg): $ also matches before a newline
\* that ends the argument.
SemesterCodeRe(arg) ==
    LET code == IF Len(arg) = 5 /\ arg[5] = "\n" THEN SubSeq(arg, 1, 4)
                ELSE arg
    IN  /\ Len(code) = 4
        /\ SubSeq(code, 1, 2)
               \in {<<"F", "A">>, <<"S", "P">>, <<"S", "U">>, <<"W", "I">>}
        /\ IsDigit(code[3])
        /\ IsDigit(code[4])

\* The loop of lines 613-621 from position i on; <<>> stands for None.
RECURSIVE OutputScan(_, _, _)
OutputScan(args, i, skip_next) ==
    IF i >= Len(args) THEN <<>>
    ELSE IF skip_next THEN OutputScan(args, i + 1, FALSE)
    ELSE IF At(args, i) \in {DashSemester, DashMaxFallbacks}
         THEN OutputScan(args, i + 1, TRUE)
    ELSE IF ~StartsWith(At(args, i), <<"--">>) /\ ~SemesterCodeRe(At(args, i))
         THEN At(args, i)
         ELSE OutputScan(args, i + 1, FALSE)

\* Lines 611-624: not output_file holds for None and for the empty string.
OutputFile(found) == IF found = <<>> THEN DefaultOutput ELSE found

\* Lines 585-626: what the file-processing mode calls process_course_list
\* with.
ReadCommandLine(args) ==
    [debug |-> \E i \in DOMAIN args : args[i] = DashDebug,
     no_fallback |-> \E i \in DOMAIN args : args[i] = DashNoFallback,
     max_fallbacks |-> MaxFallbacksFrom(args, 0, 3),
     semester |-> SemesterFrom(args, 0),
     input_file |-> At(args, 2),
     output_file |-> OutputFile(OutputScan(args, 3, FALSE))]

(***************************************************************************)
(* Course code extractor                                                   *)
(***************************************************************************)
\* The end of the match of r'[A-Z]+ \d{4}' that starts at position pos of
\* content, 0 when the pattern does not match there.
MatchCodeAt(content, pos) ==
    LET letters == {e \in pos..Len(content) :
                       \A j \in pos..e : IsUpper(content[j])}
        ok == {e \in letters :
                  /\ e + 5 <= Len(content)
                  /\ content[e + 1] = " "
                  /\ \A j \in (e + 2)..(e + 5) : IsDigit(content[j])}
    IN  IF ok = {} THEN 0
        ELSE (CHOOSE e \in ok : \A f \in ok : f <= e) + 5

\* re.findall: the matches found scanning from the left, each search
\* resuming where the previous match ended.
RECURSIVE FindAllFrom(_, _)
FindAllFrom(content, pos) ==
    IF pos > Len(content) THEN <<>>
    ELSE LET e == MatchCodeAt(content, pos)
         IN  IF e > 0
             THEN <<SubSeq(content, pos, e)>> \o FindAllFrom(content, e + 1)
             ELSE FindAllFrom(content, pos + 1)

FindAll(content) == FindAllFrom(content, 1)

\* ord(c) for the characters of the model's texts
Ord(c) ==
    IF IsDigit(c) THEN 48 + DigitVal(c)
    ELSE IF IsUpper(c)
    THEN 64 + (CHOOSE i \in DOMAIN UpperLetters : UpperLetters[i] = c)
    ELSE IF IsLower(c)
    THEN 96 + (CHOOSE i \in DOMAIN LowerLetters : LowerLetters[i] = c)
    ELSE IF c = " " THEN 32
    ELSE IF c = ":" THEN 58
    ELSE IF c = "?" THEN 63
    ELSE IF c = "-" THEN 45
    ELSE 10

\* a < b for Python strings
RECURSIVE StrLess(_, _)
StrLess(a, b) ==
    IF b = <<>> THEN FALSE
    ELSE IF a = <<>> THEN TRUE
    ELSE IF a[1] # b[1] THEN Ord(a[1]) < Ord(b[1])
    ELSE StrLess(Drop(a, 1), Drop(b, 1))

\* sorted(list(S)) for a set of strings
RECURSIVE SortedList(_)
SortedList(S) ==
    IF S = {} THEN <<>>
    ELSE LET m == CHOOSE x \in S : \A y \in S \ {x} : StrLess(x, y)
         IN  <<m>> \o SortedList(S \ {m})

\* unique_courses of extract_unique_courses
UniqueCourses(content) == SortedList(Range(FindAll(content)))

(***************************************************************************)
(* Pages and responses                                                     *)
(***************************************************************************)
\* A page on which no selector finds anything
EmptyPage ==
    [note |-> NoElem, title_a |-> NoElem,
     title_div |-> [present |-> FALSE, a |-> NoElem],
     descr |-> NoElem, spans |-> [c \in SpanClasses |-> NoSpan],
     outcomes |-> <<>>]

CatalogNoteText ==
    <<"Course information provided by the ", "2", "0", "2", "5", "-", "2",
      "0", "2", "6", " ", "Catalog", ".">>

\* The spans of a page, all of one kind: absent, with a prompt, or present
\* without a prompt
SpanKinds ==
    {[c \in SpanClasses |-> NoSpan],
     [c \in SpanClasses |-> Span(Elem(<<"label: ">>), <<c>>)],
     [c \in SpanClasses |-> Span(NoElem, <<c>>)]}

Pages ==
    [note : {NoElem, Elem(CatalogNoteText)},
     title_a : {NoElem, Elem(<<>>), Elem(<<"Intro">>),
                Elem(<<"CS 1110", " - ", "Intro">>)},
     title_div : {[present |-> FALSE, a |-> NoElem],
                  [present |-> TRUE, a |-> NoElem],
                  [present |-> TRUE, a |-> Elem(<<"Title in div">>)]},
     descr : {NoElem, Elem(<<>>), Elem(<<"Programming and problem solving">>)},
     spans : SpanKinds,
     outcomes : {<<>>, <<(<<"outcome">>)>>}]

\* A complete course page
FullPage ==
    [note |-> Elem(CatalogNoteText),
     title_a |-> Elem(<<"CS 1110", " - ", "Intro">>),
     title_div |-> [present |-> FALSE, a |-> NoElem],
     descr |-> Elem(<<"Programming and problem solving">>),
     spans |-> [c \in SpanClasses |-> Span(Elem(<<"label: ">>), <<c>>)],
     outcomes |-> <<(<<"outcome">>)>>]

(***************************************************************************)
(* Inputs of the semester resolver                                         *)
(***************************************************************************)
Years == {1999, 2000, 2025, 2099}

IsLeap(y) == (y % 4 = 0 /\ y % 100 # 0) \/ y % 400 = 0

DaysIn(y, m) ==
    IF m = 2 THEN (IF IsLeap(y) THEN 29 ELSE 28)
    ELSE IF m \in {4, 6, 9, 11} THEN 30
    ELSE 31

Dates ==
    {d \in [year : Years, month : 1..12, day : 1..31] :
        d.day <= DaysIn(d.year, d.month)}

FA25 == <<"F", "A", "2", "5">>

SP25 == <<"S", "P", "2", "5">>

FA24 == <<"F", "A", "2", "4">>

SP24 == <<"S", "P", "2", "4">>

SP00 == <<"S", "P", "0", "0">>

SU25 == <<"S", "U", "2", "5">>

WI25 == <<"W", "I", "2", "5">>

SPRING == <<"S", "P", "R", "I", "N", "G">>

\* Values of --semester; <<>> stands for no override.
SemesterArgs == {<<>>, FA25, SP25, SP00, SU25, WI25, SPRING}

(***************************************************************************)
(* The semester resolver as a state machine                                *)
(***************************************************************************)
\* The resolver before the scraper is constructed, with fixed arguments
SemIdle ==
    /\ today = [year |-> 2025, month |-> 1, day |-> 1]
    /\ semester_arg = <<>>
    /\ steps = 0
    /\ self_semester = <<>>
    /\ previous = Ok(<<>>)
    /\ fallbacks = Ok(<<>>)
    /\ sem_pc = "new"

ParseIdle ==
    /\ parse_input = <<>>
    /\ parse_result = Ok(<<>>)
    /\ parse_pc = "done"

FmtIdle ==
    /\ fmt_record = None
    /\ fmt_note = FALSE
    /\ fmt_output = <<>>
    /\ fmt_pc = "done"

ExtIdle ==
    /\ ext_input = [exists |-> FALSE, content |-> <<>>]
    /\ ext_output = [exists |-> FALSE, lines |-> <<>>]
    /\ ext_pc = "done"

FetchIdle ==
    /\ fetch_course = <<>>
    /\ fetch_semester = <<>>
    /\ fetch_resp = [raises |-> "none", status |-> 404, page |-> EmptyPage]
    /\ fetch_result = Ok(None)
    /\ fetch_pc = "done"

NoCli ==
    [debug |-> FALSE, no_fallback |-> FALSE, max_fallbacks |-> 3,
     semester |-> <<>>, input_file |-> <<>>, output_file |-> <<>>]

CliIdle ==
    /\ argv = <<>>
    /\ cli = NoCli
    /\ cli_pc = "parsed"

NoSummary == [total |-> 0, successful |-> 0, failed |-> <<>>]

\* The locals of a run before it starts
RunLocalsInit ==
    /\ courses = <<>>
    /\ idx = 0
    /\ attempts = <<>>
    /\ lookup_result = None
    /\ fb_list = <<>>
    /\ fb_idx = 0
    /\ successful = 0
    /\ failed = <<>>
    /\ lookups = <<>>
    /\ summary = NoSummary
    /\ printed = <<>>

RunIdle ==
    /\ mode = "none"
    /\ use_fallback = TRUE
    /\ max_fallbacks = 3
    /\ input_file = [exists |-> FALSE, lines |-> <<>>]
    /\ output_file = [exists |-> FALSE, lines |-> <<>>]
    /\ pc = "done"
    /\ RunLocalsInit

SemInit ==
    /\ ParseIdle
    /\ FmtIdle
    /\ ExtIdle
    /\ FetchIdle
    /\ RunIdle
    /\ CliIdle
    /\ today \in Dates
    /\ semester_arg \in SemesterArgs
    /\ steps \in 0..MaxSteps
    /\ self_semester = <<>>
    /\ previous = Ok(<<>>)
    /\ fallbacks = Ok(<<>>)
    /\ sem_pc = "new"

\* __init__, lines 24-27
Construct ==
    /\ sem_pc = "new"
    /\ self_semester' = IF semester_arg # <<>> THEN semester_arg
                   ELSE get_current_semester(today.year, today.month,
                                             today.day)
    /\ sem_pc' = "constructed"
    /\ UNCHANGED <<today, semester_arg, steps, previous, fallbacks>>
    /\ UNCHANGED <<parseVars, fmtVars, extVars, fetchVars, runVars, cliVars>>

StepBack ==
    /\ sem_pc = "constructed"
    /\ previous' = get_previous_semester(self_semester, steps)
    /\ sem_pc' = "stepped"
    /\ UNCHANGED <<today, semester_arg, self_semester, steps, fallbacks>>
    /\ UNCHANGED <<parseVars, fmtVars, extVars, fetchVars, runVars, cliVars>>

Fallbacks ==
    /\ sem_pc = "stepped"
    /\ fallbacks' = get_fallback_semesters(self_semester, steps)
    /\ sem_pc' = "done"
    /\ UNCHANGED <<today, semester_arg, self_semester, steps, previous>>
    /\ UNCHANGED <<parseVars, fmtVars, extVars, fetchVars, runVars, cliVars>>

SemNext == Construct \/ StepBack \/ Fallbacks

SpecSemester == SemInit /\ [][SemNext]_vars

(***************************************************************************)
(* Properties of the semester resolver                                     *)
(***************************************************************************)
\* Two zero-padded decimal digits of y mod 100
TwoDigits(y) == <<Digits[((y % 100) \div 10) + 1], Digits[(y % 10) + 1]>>

\* Month and day as one number: April 15 is 415.
MonthDay(d) == d.month * 100 + d.day

\* C6: semester inference is a total three-way partition of dates: April 15
\* to October 14 gives FA<year>, October 15 to December 31 gives
\* SP<year + 1>, January 1 to April 14 gives SP<year>, the year as two
\* zero-padded digits of the year mod 100; the conditions of the branches
\* never hold together and exactly one branch applies.
C6_InferencePartition ==
    (sem_pc # "new" /\ semester_arg = <<>>) =>
        LET md == MonthDay(today)
            branch == SemesterBranch(today.month, today.day)
        IN  /\ (415 <= md /\ md <= 1014) <=> branch = "fall"
            /\ (1015 <= md /\ md <= 1231) <=> branch = "next_spring"
            /\ (101 <= md /\ md <= 414) <=> branch = "spring"
            /\ ~(FallCond(today.month, today.day)
                   /\ NextSpringCond(today.month, today.day))
            /\ branch = "fall" => self_semester = <<"F", "A">> \o TwoDigits(today.year)
            /\ branch = "next_spring" =>
                   self_semester = <<"S", "P">> \o TwoDigits(today.year + 1)
            /\ branch = "spring" => self_semester = <<"S", "P">> \o TwoDigits(today.year)
            /\ Len(self_semester) = 4

\* October 15, 2099 has been inferred as SP00.
C6_Witness ==
    /\ sem_pc = "constructed"
    /\ semester_arg = <<>>
    /\ today = [year |-> 2099, month |-> 10, day |-> 15]
    /\ self_semester = SP00

\* A semester code as the command line recognizes one on line 619
IsSemesterCode(s) ==
    /\ Len(s) = 4
    /\ SubSeq(s, 1, 2) \in {<<"F", "A">>, <<"S", "P">>, <<"S", "U">>, <<"W", "I">>}
    /\ IsDigit(s[3])
    /\ IsDigit(s[4])

\* One step back
Step1(s) == get_previous_semester(s, 1).val

\* One step back applied k times
RECURSIVE StepTimes(_, _)
StepTimes(s, k) == IF k = 0 THEN s ELSE Step1(StepTimes(s, k - 1))

\* C7: for a starting semester code and a count N >= 0, the fallback list has
\* exactly N elements, the k-th being the single step back applied k times to
\* the start: the first is one step before the start, every later one is one
\* step before its predecessor; stepping back a + b semesters equals stepping
\* back a and then b; for FA25 and N = 3 the list is [SP25, FA24, SP24].
C7_FallbackEnumeration ==
    (sem_pc = "done" /\ IsSemesterCode(self_semester)) =>
        /\ ~fallbacks.raised
        /\ ~previous.raised
        /\ Len(fallbacks.val) = steps
        /\ \A k \in 1..steps : fallbacks.val[k] = StepTimes(self_semester, k)
        /\ steps >= 1 => fallbacks.val[1] = Step1(self_semester)
        /\ \A k \in 2..steps : fallbacks.val[k] = Step1(fallbacks.val[k - 1])
        /\ \A a \in 0..steps :
               get_previous_semester(get_previous_semester(self_semester, a).val,
                                     steps - a) = previous
        /\ (self_semester = FA25 /\ steps = 3) =>
               fallbacks.val = <<SP25, FA24, SP24>>

\* The fallback list of FA25 with count 3 has been built.
C7_Witness ==
    /\ sem_pc = "done"
    /\ self_semester = FA25
    /\ steps = 3
    /\ fallbacks = Ok(<<SP25, FA24, SP24>>)
    /\ previous = Ok(SP24)

(***************************************************************************)
(* The course code parser on every short course string                     *)
(***************************************************************************)
ParseChars == {"C", "s", "1", " ", ":", "?"}

\* Every text of at most n characters of the set chars
TextsUpTo(chars, n) == UNION {[1..k -> chars] : k \in 0..n}

ParseInit ==
    /\ RunIdle
    /\ CliIdle
    /\ SemIdle
    /\ FmtIdle
    /\ ExtIdle
    /\ FetchIdle
    /\ parse_input \in TextsUpTo(ParseChars, MaxCourseLen)
    /\ parse_result = Ok(<<>>)
    /\ parse_pc = "call"

Parse ==
    /\ parse_pc = "call"
    /\ parse_result' = parse_course_code(parse_input)
    /\ parse_pc' = "done"
    /\ UNCHANGED parse_input
    /\ UNCHANGED <<semVars, fmtVars, extVars, fetchVars, runVars, cliVars>>

ParseNext == Parse

SpecParse == ParseInit /\ [][ParseNext]_vars

CS_1110 == <<"C", "S", " ", "1", "1", "1", "0">>

CS1110 == <<"C", "S", "1", "1", "1", "0">>

CS_1110_Intro == <<"C", "S", " ", "1", "1", "1", "0", ":", " ", "I", "n", "t", "r", "o", " ", "t", "o", " ", "C", "o", "m", "p", "u", "t", "i", "n", "g">>

Question4 == <<"?", "?", "?", "?">>

\* The course string as the pattern sees it: cut at the first colon, trimmed
TrimmedCut(s) == Strip(BeforeColon(s))

\* t[a..b] is a non-empty run of characters of the set chars
IsRun(t, a, b, chars) ==
    a <= b /\ b <= Len(t) /\ \A j \in a..b : t[j] \in chars

\* t[a..b] is a run that ends the text or is followed by a character that
\* is not of the set
IsWholeRun(t, a, b, chars) ==
    /\ \A j \in a..b : t[j] \in chars
    /\ b = Len(t) \/ t[b + 1] \notin chars

\* Letters, optional whitespace, a digit: the pattern occurs at position p
OccursAt(t, p) ==
    \E l \in p..Len(t) : \E w \in l..Len(t) :
        /\ IsRun(t, p, l, LetterChars)
        /\ \A j \in (l + 1)..w : IsSpace(t[j])
        /\ w < Len(t)
        /\ IsDigit(t[w + 1])

ParseExamples ==
    /\ parse_course_code(CS_1110) = Ok(<<(<<"C", "S">>), (<<"1", "1", "1", "0">>)>>)
    /\ parse_course_code(CS1110) = Ok(<<(<<"C", "S">>), (<<"1", "1", "1", "0">>)>>)
    /\ parse_course_code(CS_1110_Intro)
           = Ok(<<(<<"C", "S">>), (<<"1", "1", "1", "0">>)>>)
    /\ parse_course_code(Question4) = ValueError

\* C8 as stated: parsing succeeds exactly when the pattern (letters, optional
\* whitespace, digits) occurs anywhere in the trimmed, colon-truncated input.
C8_SucceedsIffPatternAnywhere ==
    parse_pc = "done" =>
        LET t == TrimmedCut(parse_input)
        IN  ~parse_result.raised <=> \E p \in 1..Len(t) : OccursAt(t, p)

\* C8 amended: parsing succeeds exactly when the trimmed, colon-truncated
\* input begins with a run of letters followed by optional whitespace and a
\* digit; it then returns the whole leading letter run uppercased and the
\* whole digit run after the whitespace, and otherwise raises ValueError,
\* also when the pattern occurs later in the string.  "CS 1110", "CS1110" and
\* "CS 1110: Intro to Computing" give ("CS", "1110"); "????" fails.
C8_SucceedsIffPatternAtStart ==
    /\ ParseExamples
    /\ parse_pc = "done" =>
        LET t == TrimmedCut(parse_input)
        IN  /\ ~parse_result.raised <=> (t # <<>> /\ OccursAt(t, 1))
            /\ ~parse_result.raised =>
                 \E l \in 1..Len(t) : \E w \in l..Len(t) : \E d \in (w + 1)..Len(t) :
                     /\ IsWholeRun(t, 1, l, LetterChars)
                     /\ IsWholeRun(t, l + 1, w, SpaceChars)
                     /\ IsWholeRun(t, w + 1, d, DigitChars)
                     /\ parse_result.val[2] = SubSeq(t, w + 1, d)
                     /\ Len(parse_result.val[1]) = l
                     /\ \A j \in 1..l :
                            /\ IsUpper(parse_result.val[1][j])
                            /\ parse_result.val[1][j] \in {t[j], UpperChar(t[j])}
                            /\ IsUpper(t[j]) => parse_result.val[1][j] = t[j]

\* " Cs1:" has been parsed to ("CS", "1").
C8_Witness ==
    /\ parse_pc = "done"
    /\ parse_input = <<" ", "C", "s", "1", ":">>
    /\ parse_result = Ok(<<(<<"C", "S">>), (<<"1">>)>>)

(***************************************************************************)
(* The output formatter on every shape of course record                    *)
(***************************************************************************)
\* The text of a field that is present: one piece naming the field
Filled(field) == <<field>>

Year2025 == <<"2", "0", "2", "5", "-", "2", "0", "2", "6">>

\* The labelled one-line fields in the order of the output, with their labels
LabelledFields ==
    <<[field |-> "prerequisites", label |-> "Prerequisites: "],
      [field |-> "permission_note", label |-> "Permission Note: "],
      [field |-> "forbidden_overlaps", label |-> "Forbidden Overlaps: "],
      [field |-> "distribution_requirements",
       label |-> "Distribution Requirements: "],
      [field |-> "when_offered", label |-> "When Offered: "],
      [field |-> "satisfies_requirement", label |-> "Satisfies Requirement: "],
      [field |-> "last_terms_offered", label |-> "Last 4 Terms Offered: "]>>

OptionalText(field) == {<<>>, Filled(field)}

\* Course records as a successful fetch builds them: title or description
\* is not empty.
FmtRecords ==
    {r \in [isNone : {FALSE},
            code : {CS_1110},
            title : OptionalText("title"),
            description : OptionalText("description"),
            catalog_year : {<<>>, Year2025},
            forbidden_overlaps : OptionalText("forbidden_overlaps"),
            distribution_requirements :
                OptionalText("distribution_requirements"),
            prerequisites : OptionalText("prerequisites"),
            permission_note : OptionalText("permission_note"),
            when_offered : OptionalText("when_offered"),
            satisfies_requirement : OptionalText("satisfies_requirement"),
            last_terms_offered : OptionalText("last_terms_offered"),
            learning_outcomes :
                {[i \in 1..n |-> <<"outcome", Digits[i + 1]>>] :
                    n \in 0..MaxOutcomes},
            semester_found : {SP25}] :
        r.title # <<>> \/ r.description # <<>>}

FmtInit ==
    /\ RunIdle
    /\ CliIdle
    /\ SemIdle
    /\ ParseIdle
    /\ ExtIdle
    /\ FetchIdle
    /\ fmt_record \in FmtRecords
    /\ fmt_note \in BOOLEAN
    /\ fmt_output = <<>>
    /\ fmt_pc = "call"

Format ==
    /\ fmt_pc = "call"
    /\ fmt_output' = format_course_output(fmt_record, fmt_note)
    /\ fmt_pc' = "done"
    /\ UNCHANGED <<fmt_record, fmt_note>>
    /\ UNCHANGED <<semVars, parseVars, extVars, fetchVars, runVars, cliVars>>

FmtNext == Format

SpecFormat == FmtInit /\ [][FmtNext]_vars

\* The positions of the lines of out that start with the piece first
LinesStarting(out, first) ==
    {i \in DOMAIN out : out[i] # <<>> /\ out[i][1] = first}

\* The position of the only line starting with first, 0 when there is none
PosOf(out, first) ==
    IF LinesStarting(out, first) = {} THEN 0
    ELSE CHOOSE i \in LinesStarting(out, first) : TRUE

IsAttribution(line) ==
    \/ line = <<"Course information provided by the Catalog.">>
    \/ /\ Len(line) > 1
       /\ line[1] = "Course information provided by the "
       /\ line[Len(line)] = " Catalog."

\* C9: the output is, in this order: code, title, the semester note only
\* when requested, exactly one catalog attribution line, a blank line, the
\* Course Description block, the lines Prerequisites, Permission Note,
\* Forbidden Overlaps, Distribution Requirements, When Offered, Satisfies
\* Requirement, Last 4 Terms Offered, and the Learning Outcomes block; a
\* labelled line or block appears if and only if its field is not empty.
C9_FormatOrderAndOmission ==
    fmt_pc = "done" =>
        LET out == fmt_output
            r == fmt_record
            h == IF fmt_note THEN 4 ELSE 3
            descPos == PosOf(out, "Course Description:")
            outPos == PosOf(out, "Learning Outcomes:")
            nOut == Len(r.learning_outcomes)
            pos(k) == PosOf(out, LabelledFields[k].label)
            present == {k \in DOMAIN LabelledFields :
                           r[LabelledFields[k].field] # <<>>}
        IN  /\ Len(out) >= h + 1
            /\ out[1] = r.code
            /\ out[2] = r.title
            /\ LinesStarting(out, "[Information from ") =
                   (IF fmt_note THEN {3} ELSE {})
            /\ fmt_note =>
                   out[3] = <<"[Information from ">> \o r.semester_found
                                \o <<" Class Roster]">>
            /\ {i \in DOMAIN out : IsAttribution(out[i])} = {h}
            /\ r.catalog_year # <<>> =>
                   out[h] = <<"Course information provided by the ">>
                                \o r.catalog_year \o <<" Catalog.">>
            /\ out[h + 1] = <<>>
            /\ Cardinality(LinesStarting(out, "Course Description:"))
                   = (IF r.description # <<>> THEN 1 ELSE 0)
            /\ r.description # <<>> =>
                   /\ descPos = h + 2
                   /\ out[descPos] = <<"Course Description:">>
                   /\ out[descPos + 1] = r.description
            /\ \A k \in DOMAIN LabelledFields :
                   /\ Cardinality(LinesStarting(out, LabelledFields[k].label))
                          = (IF k \in present THEN 1 ELSE 0)
                   /\ k \in present =>
                          /\ out[pos(k)] = <<LabelledFields[k].label>>
                                               \o r[LabelledFields[k].field]
                          /\ pos(k) > h + 1
                          /\ pos(k) > descPos + (IF descPos > 0 THEN 1 ELSE 0)
                          /\ outPos > 0 => pos(k) < outPos
            /\ \A j, k \in present : j < k => pos(j) < pos(k)
            /\ Cardinality(LinesStarting(out, "Learning Outcomes:"))
                   = (IF nOut > 0 THEN 1 ELSE 0)
            /\ nOut > 0 =>
                   /\ out[outPos] = <<"Learning Outcomes:">>
                   /\ outPos + nOut = Len(out)
                   /\ outPos > descPos + (IF descPos > 0 THEN 1 ELSE 0)
                   /\ \A i \in 1..nOut :
                          out[outPos + i] = <<"* ">> \o r.learning_outcomes[i]
            /\ Len(out) = h + 1 + (IF r.description # <<>> THEN 2 ELSE 0)
                            + Cardinality(present)
                            + (IF nOut > 0 THEN nOut + 1 ELSE 0)

\* A record with empty prerequisites and a when_offered text has been
\* formatted: the output has a When Offered line and no Prerequisites line.
C9_Witness ==
    /\ fmt_pc = "done"
    /\ fmt_note
    /\ fmt_record.prerequisites = <<>>
    /\ fmt_record.when_offered # <<>>
    /\ fmt_record.description # <<>>
    /\ Len(fmt_record.learning_outcomes) = 2
    /\ LinesStarting(fmt_output, "When Offered: ") # {}
    /\ LinesStarting(fmt_output, "Prerequisites: ") = {}

(***************************************************************************)
(* The course code extractor on texts made of a few fragments              *)
(***************************************************************************)
CS_4740 == <<"C", "S", " ", "4", "7", "4", "0">>

AB_1000 == <<"A", "B", " ", "1", "0", "0", "0">>

info_3450 == <<"i", "n", "f", "o", " ", "3", "4", "5", "0">>

Fragments == {CS_4740, AB_1000, info_3450, <<"1">>, <<"X">>, <<" ">>, <<"\n">>}

RECURSIVE Flatten(_)
Flatten(ss) == IF ss = <<>> THEN <<>> ELSE ss[1] \o Flatten(Drop(ss, 1))

ExtContents ==
    {Flatten(fs) : fs \in UNION {[1..k -> Fragments] : k \in 0..MaxFragments}}

\* An output file left by an earlier run
StaleOutput == [exists |-> TRUE, lines |-> <<(<<"old">>)>>]

ExtInit ==
    /\ RunIdle
    /\ CliIdle
    /\ SemIdle
    /\ ParseIdle
    /\ FmtIdle
    /\ FetchIdle
    /\ ext_input \in
           {[exists |-> FALSE, content |-> <<>>]}
               \cup {[exists |-> TRUE, content |-> c] : c \in ExtContents}
    /\ ext_output \in {[exists |-> FALSE, lines |-> <<>>], StaleOutput}
    /\ ext_pc = "call"

\* extract_unique_courses, lines 12-36
ExtractUniqueCourses ==
    /\ ext_pc = "call"
    /\ ext_output' =
           IF ext_input.exists
           THEN [exists |-> TRUE, lines |-> UniqueCourses(ext_input.content)]
           ELSE ext_output
    /\ ext_pc' = "done"
    /\ UNCHANGED ext_input
    /\ UNCHANGED <<semVars, parseVars, fmtVars, fetchVars, runVars, cliVars>>

ExtNext == ExtractUniqueCourses

SpecExtract == ExtInit /\ [][ExtNext]_vars

\* content[a..b] is one or more uppercase letters, one space and four digits
IsCodeShape(content, a, b) ==
    /\ a + 5 <= b
    /\ b <= Len(content)
    /\ \A j \in a..(b - 5) : IsUpper(content[j])
    /\ content[b - 4] = " "
    /\ \A j \in (b - 3)..b : IsDigit(content[j])

\* The occurrences of a course code in the text: a whole run of uppercase
\* letters, a space and a run of digits that has exactly four digits
CodeOccurrences(content) ==
    {SubSeq(content, a, b) : <<a, b>> \in
        {ab \in (1..Len(content)) \X (1..Len(content)) :
            /\ IsCodeShape(content, ab[1], ab[2])
            /\ ab[1] = 1 \/ ~IsUpper(content[ab[1] - 1])
            /\ ab[2] = Len(content) \/ ~IsDigit(content[ab[2] + 1])}}

\* C10: the lines written are exactly the distinct occurrences of uppercase
\* letters, one space and exactly four digits (an occurrence with any other
\* digit count, lowercase letters or no space contributes no line), each
\* once, in ascending lexical order.
C10_ExactlyFourDigitCodes ==
    (ext_pc = "done" /\ ext_input.exists) =>
        /\ ext_output.exists
        /\ ext_output.lines = SortedList(CodeOccurrences(ext_input.content))

(***************************************************************************)
(* One single-semester fetch against every kind of response                *)
(***************************************************************************)
Statuses == {200, 404, 410, 500, 301}

FetchResponses ==
    [raises : {"none", "transport", "extract"}, status : Statuses,
     page : Pages]

FetchInit ==
    /\ RunIdle
    /\ CliIdle
    /\ SemIdle
    /\ ParseIdle
    /\ FmtIdle
    /\ ExtIdle
    /\ fetch_course \in {CS_1110, CS1110, Question4}
    /\ fetch_semester \in {FA25}
    /\ fetch_resp \in FetchResponses
    /\ fetch_result = Ok(None)
    /\ fetch_pc = "call"

Fetch ==
    /\ fetch_pc = "call"
    /\ fetch_result' =
           get_course_info_for_semester(fetch_course, fetch_semester,
                                        fetch_resp)
    /\ fetch_pc' = "done"
    /\ UNCHANGED <<fetch_course, fetch_semester, fetch_resp>>
    /\ UNCHANGED <<semVars, parseVars, fmtVars, extVars, runVars, cliVars>>

FetchNext == Fetch

SpecFetch == FetchInit /\ [][FetchNext]_vars

\* The title element the page offers: the dtitle link, else the link in the
\* title div
PageTitleText(page) ==
    IF page.title_a.present THEN page.title_a.text
    ELSE IF page.title_div.present /\ page.title_div.a.present
    THEN page.title_div.a.text
    ELSE <<>>

\* The page carries a title or a description text
HasCourseData(page) ==
    \/ PageTitleText(page) # <<>>
    \/ page.descr.present /\ page.descr.text # <<>>

\* C4: a single-semester fetch yields a record if and only if no exception
\* occurred during parse, fetch or extraction, the status was 200 and the
\* extracted title or description is not empty; in every other case (404,
\* 410, another status, an empty 200 page, an unparseable course code, a
\* transport exception) it yields not-found, and it never raises.
C4_RecordIffCleanNonEmpty200 ==
    fetch_pc = "done" =>
        /\ ~fetch_result.raised
        /\ ~fetch_result.val.isNone <=>
               /\ ~parse_course_code(fetch_course).raised
               /\ fetch_resp.raises = "none"
               /\ fetch_resp.status = 200
               /\ HasCourseData(fetch_resp.page)
        /\ ~fetch_result.val.isNone =>
               /\ fetch_result.val.title # <<>>
                      \/ fetch_result.val.description # <<>>
               /\ fetch_result.val.semester_found = fetch_semester

\* A 200 page with a description and no title has given a record.
C4_Witness ==
    /\ fetch_pc = "done"
    /\ fetch_resp.status = 200
    /\ fetch_resp.raises = "none"
    /\ ~fetch_resp.page.title_a.present
    /\ ~fetch_resp.page.title_div.present
    /\ ~fetch_result.val.isNone
    /\ fetch_result.val.title = <<>>
    /\ fetch_result.val.description # <<>>

(***************************************************************************)
(* A run of the command line: single-course mode and batch mode            *)
(***************************************************************************)
BaseSemesters == {FA25, SP00, SU25, SPRING}

\* Lines of the input file as iterating over the file gives them
RawLines ==
    {CS_1110 \o <<"\n">>, Question4 \o <<"\n">>, <<" ", "\n">>}

InputFiles ==
    {[exists |-> FALSE, lines |-> <<>>]}
        \cup {[exists |-> TRUE, lines |-> ls] :
                 ls \in UNION {[1..k -> RawLines] : k \in 0..MaxLines}}

Resp(raises, status, page) ==
    [raises |-> raises, status |-> status, page |-> page]

\* What a request of a run can meet
RunResponses ==
    {Resp("transport", 200, EmptyPage), Resp("none", 404, EmptyPage),
     Resp("none", 500, EmptyPage), Resp("none", 200, EmptyPage),
     Resp("none", 200, FullPage)}

\* The course strings given as argv[1] in single-course mode
SingleCourses == {CS_1110, CS1110, Question4}

\* The state after the command line is read and the scraper is constructed,
\* lines 557-578 and 585-606: the semester is the value of --semester, or
\* the semester inferred for the day of the run.
Init ==
    /\ ParseIdle
    /\ FmtIdle
    /\ ExtIdle
    /\ FetchIdle
    /\ CliIdle
    /\ today = [year |-> 2025, month |-> 1, day |-> 1]
    /\ semester_arg \in {<<>>} \cup BaseSemesters
    /\ self_semester =
           IF semester_arg # <<>> THEN semester_arg
           ELSE get_current_semester(today.year, today.month, today.day)
    /\ steps = 0
    /\ previous = Ok(<<>>)
    /\ fallbacks = Ok(<<>>)
    /\ sem_pc = "done"
    /\ mode \in {"single", "batch"}
    /\ use_fallback \in BOOLEAN
    /\ max_fallbacks \in -1..MaxFallbacks
    /\ IF mode = "batch"
       THEN /\ input_file \in InputFiles
            /\ output_file \in {[exists |-> FALSE, lines |-> <<>>],
                                StaleOutput}
            /\ courses = <<>>
            /\ idx = 0
            /\ pc = "read_input"
       ELSE /\ input_file = [exists |-> FALSE, lines |-> <<>>]
            /\ output_file = [exists |-> FALSE, lines |-> <<>>]
            /\ courses \in {<<c>> : c \in SingleCourses}
            /\ idx = 1
            /\ pc = "lookup"
    /\ attempts = <<>>
    /\ lookup_result = None
    /\ fb_list = <<>>
    /\ fb_idx = 0
    /\ successful = 0
    /\ failed = <<>>
    /\ lookups = <<>>
    /\ summary = NoSummary
    /\ printed = <<>>

otherVars == <<semVars, parseVars, fmtVars, extVars, fetchVars, cliVars>>

\* Where an exception that leaves get_course_info or the batch loop ends:
\* the except clause of process_course_list (line 489), or nowhere in
\* single-course mode, where it ends the process with a traceback.
Propagated == IF mode = "batch" THEN "aborted" ELSE "crashed"

\* ReadInput with the output file opened for writing before the input file
\* is read
ReadInput_OutputFirst ==
    /\ pc = "read_input"
    /\ output_file' = [exists |-> TRUE, lines |-> <<>>]
    /\ IF input_file.exists
       THEN /\ courses' = ReadCourses(input_file.lines)
            /\ pc' = "header"
       ELSE /\ courses' = courses
            /\ pc' = "no_input"
    /\ UNCHANGED <<mode, use_fallback, max_fallbacks, input_file, idx,
                   attempts, lookup_result, fb_list, fb_idx, successful,
                   failed, lookups, summary, printed>>
    /\ UNCHANGED otherVars

\* process_course_list, lines 436-438 and 487-488
ReadInput ==
    /\ pc = "read_input"
    /\ IF input_file.exists
       THEN /\ courses' = ReadCourses(input_file.lines)
            /\ pc' = "header"
       ELSE /\ courses' = courses
            /\ pc' = "no_input"
    /\ UNCHANGED <<mode, use_fallback, max_fallbacks, input_file, output_file,
                   idx, attempts, lookup_result, fb_list, fb_idx, successful,
                   failed, lookups, summary, printed>>
    /\ UNCHANGED otherVars

\* process_course_list, lines 440-450: the header is printed, the counters
\* are set and the output file is opened for writing.
Header ==
    /\ pc = "header"
    /\ LET shown == IF use_fallback
                    THEN get_fallback_semesters(self_semester, max_fallbacks)
                    ELSE Ok(<<>>)
       IN  IF shown.raised
           THEN /\ pc' = "aborted"
                /\ UNCHANGED <<output_file, successful, failed, idx>>
           ELSE /\ output_file' = [exists |-> TRUE, lines |-> <<>>]
                /\ successful' = 0
                /\ failed' = <<>>
                /\ idx' = 1
                /\ pc' = IF courses = <<>> THEN "summary" ELSE "lookup"
    /\ UNCHANGED <<mode, use_fallback, max_fallbacks, input_file, courses,
                   attempts, lookup_result, fb_list, fb_idx, lookups, summary,
                   printed>>
    /\ UNCHANGED otherVars

\* get_course_info, lines 326-334 and 354: the fetch on self.semester
LookupBase ==
    /\ pc = "lookup"
    /\ \E resp \in RunResponses :
           LET r == get_course_info_for_semester(courses[idx], self_semester,
                                                 resp)
           IN  IF r.raised
               THEN /\ pc' = Propagated
                    /\ UNCHANGED <<attempts, lookup_result, lookups>>
               ELSE /\ attempts' = <<[semester |-> self_semester,
                                      found |-> ~r.val.isNone]>>
                    /\ IF ~r.val.isNone \/ ~use_fallback
                       THEN /\ lookup_result' = r.val
                            /\ lookups' =
                                   Append(lookups,
                                          [course |-> courses[idx],
                                           found |-> ~r.val.isNone])
                            /\ pc' = "lookup_done"
                       ELSE /\ pc' = "fallback_list"
                            /\ UNCHANGED <<lookup_result, lookups>>
    /\ UNCHANGED <<mode, use_fallback, max_fallbacks, input_file, output_file,
                   courses, idx, fb_list, fb_idx, successful, failed, summary,
                   printed>>
    /\ UNCHANGED otherVars

\* get_course_info, lines 335-336, and 350-352 when the list is empty
ComputeFallbacks ==
    /\ pc = "fallback_list"
    /\ LET list == get_fallback_semesters(self_semester, max_fallbacks)
       IN  IF list.raised
           THEN /\ pc' = Propagated
                /\ UNCHANGED <<fb_list, fb_idx, lookup_result, lookups>>
           ELSE /\ fb_list' = list.val
                /\ fb_idx' = 1
                /\ IF list.val = <<>>
                   THEN /\ lookup_result' = None
                        /\ lookups' = Append(lookups,
                                             [course |-> courses[idx],
                                              found |-> FALSE])
                        /\ pc' = "lookup_done"
                   ELSE /\ pc' = "fallback_loop"
                        /\ UNCHANGED <<lookup_result, lookups>>
    /\ UNCHANGED <<mode, use_fallback, max_fallbacks, input_file, output_file,
                   courses, idx, attempts, successful, failed, summary,
                   printed>>
    /\ UNCHANGED otherVars

\* get_course_info, lines 338-352: one turn of the fallback loop
TryFallback ==
    /\ pc = "fallback_loop"
    /\ \E resp \in RunResponses :
           LET r == get_course_info_for_semester(courses[idx],
                                                 fb_list[fb_idx], resp)
           IN  IF r.raised
               THEN /\ pc' = Propagated
                    /\ UNCHANGED <<attempts, fb_idx, lookup_result, lookups>>
               ELSE LET after == AfterAttempt(~r.val.isNone, fb_idx,
                                              Len(fb_list))
                    IN  /\ attempts' =
                               Append(attempts,
                                      [semester |-> fb_list[fb_idx],
                                       found |-> ~r.val.isNone])
                        /\ IF after = "next"
                           THEN /\ fb_idx' = fb_idx + 1
                                /\ pc' = "fallback_loop"
                                /\ UNCHANGED <<lookup_result, lookups>>
                           ELSE /\ lookup_result' =
                                       IF after = "return_found" THEN r.val
                                       ELSE None
                                /\ lookups' =
                                       Append(lookups,
                                              [course |-> courses[idx],
                                               found |-> after = "return_found"])
                                /\ pc' = "lookup_done"
                                /\ UNCHANGED fb_idx
    /\ UNCHANGED <<mode, use_fallback, max_fallbacks, input_file, output_file,
                   courses, idx, fb_list, successful, failed, summary, printed>>
    /\ UNCHANGED otherVars

\* process_course_list, lines 456-479: the block of the course is written
\* and the course is counted.
WriteBlock ==
    /\ pc = "lookup_done"
    /\ mode = "batch"
    /\ LET all == get_fallback_semesters(self_semester, max_fallbacks)
       IN  IF lookup_result.isNone /\ all.raised
           THEN /\ pc' = "aborted"
                /\ UNCHANGED <<output_file, successful, failed, idx>>
           ELSE /\ output_file' =
                       [output_file EXCEPT !.lines =
                           @ \o (IF lookup_result.isNone
                                 THEN FailureBlock(courses[idx],
                                                   <<self_semester>> \o all.val)
                                 ELSE SuccessBlock(lookup_result))]
                /\ successful' = NewSuccessful(successful, lookup_result)
                /\ failed' = NewFailed(failed, courses[idx], lookup_result)
                /\ idx' = idx + 1
                /\ pc' = IF idx = Len(courses) THEN "summary" ELSE "lookup"
    /\ UNCHANGED <<mode, use_fallback, max_fallbacks, input_file, courses,
                   attempts, lookup_result, fb_list, fb_idx, lookups, summary,
                   printed>>
    /\ UNCHANGED otherVars

\* process_course_list, lines 481-485
Summary ==
    /\ pc = "summary"
    /\ summary' = [total |-> Len(courses), successful |-> successful,
                   failed |-> failed]
    /\ pc' = "done"
    /\ UNCHANGED <<mode, use_fallback, max_fallbacks, input_file, output_file,
                   courses, idx, attempts, lookup_result, fb_list, fb_idx,
                   successful, failed, lookups, printed>>
    /\ UNCHANGED otherVars

\* Single-course mode, lines 581-584
PrintResult ==
    /\ pc = "lookup_done"
    /\ mode = "single"
    /\ printed' =
           IF lookup_result.isNone
           THEN <<(<<"Failed to retrieve information for ">> \o courses[idx])>>
           ELSE format_course_output(lookup_result, TRUE)
    /\ pc' = "done"
    /\ UNCHANGED <<mode, use_fallback, max_fallbacks, input_file, output_file,
                   courses, idx, attempts, lookup_result, fb_list, fb_idx,
                   successful, failed, lookups, summary>>
    /\ UNCHANGED otherVars

Next ==
    \/ ReadInput
    \/ Header
    \/ LookupBase
    \/ ComputeFallbacks
    \/ TryFallback
    \/ WriteBlock
    \/ Summary
    \/ PrintResult

Spec == Init /\ [][Next]_vars

(***************************************************************************)
(* Properties of a run                                                     *)
(***************************************************************************)
\* The semesters get_course_info is to try, in order: self.semester, then
\* the fallback list when fallback is enabled and the list can be built.
Plan ==
    LET list == get_fallback_semesters(self_semester, max_fallbacks)
    IN  <<self_semester>>
            \o (IF use_fallback /\ ~list.raised THEN list.val ELSE <<>>)

\* C1: in one lookup the semesters fetched are a prefix of the base semester
\* followed by the fallback list (empty when fallback is disabled), taken in
\* that order with the base semester first; a fetch after a hit never
\* happens, so only the last attempt can be a hit; a returned record comes
\* from that hit and carries its semester as semester_found; not-found is
\* returned only after every planned semester was a miss.
C1_AttemptsArePrefixOfPlan ==
    /\ Len(attempts) <= Len(Plan)
    /\ \A k \in DOMAIN attempts :
           /\ attempts[k].semester = Plan[k]
           /\ attempts[k].found => k = Len(attempts)
    /\ pc \in {"fallback_list", "fallback_loop", "lookup_done"} =>
           /\ attempts # <<>>
           /\ attempts[1].semester = self_semester
    /\ pc \in {"fallback_list", "fallback_loop"} =>
           \A k \in DOMAIN attempts : ~attempts[k].found
    /\ pc = "lookup_done" /\ ~lookup_result.isNone =>
           /\ attempts[Len(attempts)].found
           /\ lookup_result.semester_found = attempts[Len(attempts)].semester
    /\ pc = "lookup_done" /\ lookup_result.isNone =>
           /\ Len(attempts) = Len(Plan)
           /\ \A k \in DOMAIN attempts : ~attempts[k].found

\* A lookup on FA25 with three fallbacks missed FA25 and SP25, hit FA24 and
\* returned without a fetch on SP24.
C1_Witness ==
    /\ pc = "lookup_done"
    /\ use_fallback
    /\ max_fallbacks = 3
    /\ attempts = <<[semester |-> FA25, found |-> FALSE],
                    [semester |-> SP25, found |-> FALSE],
                    [semester |-> FA24, found |-> TRUE]>>
    /\ ~lookup_result.isNone
    /\ lookup_result.semester_found = FA24

\* The number of separator lines in the output file: one ends each block.
SeparatorCount(lines) ==
    Cardinality({i \in DOMAIN lines : lines[i] = Separator})

\* The position of the first line of the i-th block of the output file
BlockStart(lines, i) ==
    IF i = 1 THEN 1
    ELSE 2 + (CHOOSE p \in DOMAIN lines :
                  /\ lines[p] = Separator
                  /\ SeparatorCount(SubSeq(lines, 1, p)) = i - 1)

\* The first line of the block of a course: the code as the record has it
\* when the course was found, the course string as read when it was not.
BlockHeads(course_code) ==
    LET parsed == parse_course_code(course_code)
    IN  {course_code}
            \cup (IF parsed.raised THEN {}
                  ELSE {parsed.val[1] \o <<" ">> \o parsed.val[2]})

\* C2: once the batch has read its input list, whatever the base semester,
\* the fallback settings and the outcomes of the courses, the run is not
\* aborted: it ends with the loop past the last course and the output file
\* holding one block per course, in input order.
C2_PerCourseFailuresNeverAbort ==
    (mode = "batch" /\ pc \notin {"read_input", "no_input"}) =>
        /\ pc # "aborted"
        /\ pc = "done" =>
               /\ idx = Len(courses) + 1
               /\ SeparatorCount(output_file.lines) = Len(courses)
               /\ \A i \in DOMAIN courses :
                      output_file.lines[BlockStart(output_file.lines, i)]
                          \in BlockHeads(courses[i])

\* The course codes of the lookups that returned not-found, in order
RECURSIVE NotFoundCodes(_)
NotFoundCodes(ls) ==
    IF ls = <<>> THEN <<>>
    ELSE (IF ls[1].found THEN <<>> ELSE <<ls[1].course>>)
             \o NotFoundCodes(Drop(ls, 1))

\* The number of lines of the input file that are not blank
NonBlankLines(lines) ==
    Cardinality({i \in DOMAIN lines : Strip(lines[i]) # <<>>})

\* C3: in the batch loop successful + len(failed) is the number of courses
\* processed so far; when the summary is reported it is the number of
\* non-blank input lines, and failed is, in input order, exactly the codes
\* of the courses whose lookup returned not-found.
C3_SummaryAccounting ==
    mode = "batch" =>
        /\ pc \in {"lookup", "fallback_list", "fallback_loop", "lookup_done"}
               => successful + Len(failed) = idx - 1
        /\ pc \in {"summary", "done"} =>
               /\ successful + Len(failed) = Len(courses)
               /\ Len(courses) = NonBlankLines(input_file.lines)
               /\ [i \in DOMAIN lookups |-> lookups[i].course] = courses
               /\ failed = NotFoundCodes(lookups)
        /\ pc = "done" =>
               summary = [total |-> NonBlankLines(input_file.lines),
                          successful |-> Len(courses) - Len(failed),
                          failed |-> NotFoundCodes(lookups)]

\* A batch of two courses, the first found and the second not, has reported
\* one success and the second code as the only failure.
C3_Witness ==
    /\ mode = "batch"
    /\ pc = "done"
    /\ courses = <<CS_1110, Question4>>
    /\ lookups = <<[course |-> CS_1110, found |-> TRUE],
                   [course |-> Question4, found |-> FALSE]>>
    /\ summary = [total |-> 2, successful |-> 1, failed |-> <<Question4>>]

\* C5: whatever the course string, the base semester and the fallback
\* settings, get_course_info returns a record or not-found: no exception
\* leaves it and ends the single-course run.
C5_LookupNeverRaises ==
    mode = "single" =>
        /\ pc # "crashed"
        /\ pc = "done" => printed # <<>>

(***************************************************************************)
(* The command line reader as a state machine                              *)
(***************************************************************************)
Prog == <<"cornell_scraper.py">>

InTxt == <<"in.txt">>

OutTxt == <<"out.txt">>

Five == <<"5">>

\* What can stand at argv[2]
InputArgs == {InTxt, DashSemester, DashMaxFallbacks}

\* What can stand after argv[2]
ArgTokens ==
    {DashSemester, DashMaxFallbacks, DashNoFallback, FA25, OutTxt, Five, <<>>}

\* The command lines that enter the file-processing mode (line 585)
CommandLines ==
    {<<Prog, DashFile, a>> \o rest :
        a \in InputArgs,
        rest \in UNION {[1..k -> ArgTokens] : k \in 0..MaxArgs}}

CliInit ==
    /\ RunIdle
    /\ SemIdle
    /\ ParseIdle
    /\ FmtIdle
    /\ ExtIdle
    /\ FetchIdle
    /\ argv \in CommandLines
    /\ cli = NoCli
    /\ cli_pc = "start"

\* Lines 585-626 up to the call of process_course_list
ParseArgs ==
    /\ cli_pc = "start"
    /\ Len(argv) >= 3
    /\ At(argv, 1) = DashFile
    /\ cli' = ReadCommandLine(argv)
    /\ cli_pc' = "parsed"
    /\ UNCHANGED argv
    /\ UNCHANGED <<semVars, parseVars, fmtVars, extVars, fetchVars, runVars>>

CliNext == ParseArgs

SpecCli == CliInit /\ [][CliNext]_vars

\* The argument at position i is the value of a --semester or
\* --max-fallbacks flag that precedes it, the command line being read from
\* argv[2] on.
RECURSIVE IsFlagValue(_, _)
IsFlagValue(args, i) ==
    /\ i >= 3
    /\ At(args, i - 1) \in {DashSemester, DashMaxFallbacks}
    /\ ~IsFlagValue(args, i - 1)

\* The positions after argv[2] of the arguments that can be the output path
PathPositions(args) ==
    {i \in 3..(Len(args) - 1) :
        /\ ~StartsWith(At(args, i), <<"--">>)
        /\ ~IsFlagValue(args, i)
        /\ ~IsSemesterCode(At(args, i))}

\* C11: in file-processing mode the output path is the first argument after
\* argv[2] that does not start with --, is not the value of a preceding
\* --semester or --max-fallbacks flag and is not a semester code;
\* courses_output.txt when there is none.  This is to hold for every
\* argument list, also when such a flag stands at argv[2].  It is stated
\* for command lines without an empty argument, which is no path.
C11_OutputPathSelection ==
    (cli_pc = "parsed" /\ argv # <<>> /\ \A k \in DOMAIN argv : argv[k] # <<>>)
    =>  cli.output_file =
            IF PathPositions(argv) = {} THEN DefaultOutput
            ELSE At(argv, CHOOSE i \in PathPositions(argv) :
                              \A j \in PathPositions(argv) : i <= j)

(***************************************************************************)
(* The two entry points that read an input file                            *)
(***************************************************************************)
\* A behaviour is a run of the scraper's command line or a call of the
\* extractor.
FilesInit == Init \/ ExtInit

FilesNext == Next \/ ExtNext

SpecFiles == FilesInit /\ [][FilesNext]_vars

\* A file that the call did not create or write: it is absent, or it still is
\* the file an earlier run left.
Untouched(file) == file.exists => file = StaleOutput

\* C12: with a missing input file process_course_list and
\* extract_unique_courses return without raising (the batch ends in the
\* branch that reports the missing file), no fetch is made, and the output
\* file is neither created nor modified.
C12_MissingInputFile ==
    /\ (mode = "batch" /\ ~input_file.exists) =>
           /\ pc \in {"read_input", "no_input"}
           /\ attempts = <<>>
           /\ lookups = <<>>
           /\ Untouched(output_file)
    /\ (mode = "none" /\ ~ext_input.exists) => Untouched(ext_output)

\* A batch whose input file is missing has returned and the output file of
\* an earlier run is as it was.
C12_Witness ==
    /\ mode = "batch"
    /\ ~input_file.exists
    /\ pc = "no_input"
    /\ output_file = StaleOutput

\* C13: within one lookup no semester code is fetched more than once,
\* whatever the base semester (SU25 and WI25 included) and max_fallbacks,
\* and a lookup that returns does so as Found, with the record of the hit,
\* or as Exhausted, after every listed term was a miss.  (That no exception
\* leaves the lookup is what C5 states.)
C13_NoRetryOfATerm ==
    /\ \A i, j \in DOMAIN attempts :
           i # j => attempts[i].semester # attempts[j].semester
    /\ pc = "lookup_done" =>
           \/ /\ ~lookup_result.isNone
              /\ attempts[Len(attempts)].found
           \/ /\ lookup_result.isNone
              /\ \A k \in DOMAIN attempts : ~attempts[k].found
              /\ Len(attempts) = Len(Plan)

\* A semester code as the spec defines one: FA or SP and two digits
WellFormed(s) ==
    /\ Len(s) = 4
    /\ SubSeq(s, 1, 2) \in {FA, SP}
    /\ IsDigit(s[3])
    /\ IsDigit(s[4])

\* The year digits of a well-formed code as a number
YearOf(s) == 10 * DigitVal(s[3]) + DigitVal(s[4])

\* C14: one step back maps FA<YY> to SP<YY> and SP<YY> to FA of the year
\* before, and gives a well-formed code again, so that every code reached
\* by any number of steps back from a well-formed code is well-formed.
C14_StepBackWellFormed ==
    (sem_pc \in {"stepped", "done"} /\ WellFormed(self_semester)) =>
        /\ ~previous.raised
        /\ WellFormed(previous.val)
        /\ (steps = 1 /\ StartsWith(self_semester, FA)) =>
               previous.val = SP \o Drop(self_semester, 2)
        /\ (steps = 1 /\ StartsWith(self_semester, SP)
                /\ YearOf(self_semester) >= 1) =>
               previous.val = FA \o TwoDigits(YearOf(self_semester) - 1)

\* The semesters of the fetches of the lookup that ended last
Attempted == [k \in DOMAIN attempts |-> attempts[k].semester]

\* C15: the Error line of a failure block lists exactly the semesters on
\* which a fetch was attempted in that course's lookup, in the order
\* attempted, with fallback enabled or disabled and for every max_fallbacks.
C15_ErrorLineListsAttempts ==
    (/\ mode = "batch"
     /\ pc \in {"lookup", "summary", "done"}
     /\ lookups # <<>>
     /\ ~lookups[Len(lookups)].found)
    =>  output_file.lines[Len(output_file.lines) - 3] =
            <<"Error: ">> \o lookups[Len(lookups)].course
                \o <<" has not been offered in: ">> \o Join(Attempted, ", ")

\* The field of the record that belongs to each labelled span
FieldOf ==
    [c \in SpanClasses |->
        CASE c = "catalog-forbid" -> "forbidden_overlaps"
          [] c = "catalog-attribute" -> "distribution_requirements"
          [] c = "catalog-precoreq" -> "prerequisites"
          [] c = "catalog-permiss" -> "permission_note"
          [] c = "catalog-when-offered" -> "when_offered"
          [] c = "catalog-satisfies" -> "satisfies_requirement"
          [] c = "last-terms-offered" -> "last_terms_offered"]

\* C16: each of the seven span fields is the text of its span with the text
\* of a nested catalog-prompt element, if there is one, left out, and is
\* empty when the page has no such span.
C16_SpanFieldIsTextWithoutPrompt ==
    (fetch_pc = "done" /\ ~fetch_result.val.isNone) =>
        \A c \in SpanClasses :
            fetch_result.val[FieldOf[c]] =
                IF fetch_resp.page.spans[c].present
                THEN fetch_resp.page.spans[c].rest
                ELSE <<>>

=============================================================================
